---- MODULE Spec2Model ----
(***************************************************************************)
(* A model of the query orchestration pipeline of zikade:                  *)
(*   - PooledQueryBehaviour (internal/coord/query.go): Notify, Perform,     *)
(*     perfomNextInbound, advancePool, updateReadyStatus and the queues;    *)
(*   - the query pool and the query state machine it drives                 *)
(*     (internal/coord/query, whose code is not among the sources: it is    *)
(*     modelled from sections 4.1 and 4.2 of the specification);            *)
(*   - the FollowUp broadcast state machine (internal/coord/brdcst).        *)
(* Only the "find closer" family of events is modelled: the "send message"  *)
(* family (EventStartMessageQuery, EventSendMessageSuccess/Failure) is      *)
(* translated by the same code paths to the same pool events.               *)
(***************************************************************************)
EXTENDS Integers, Sequences, FiniteSets, TLC

\* ------------------------------------------------------------------ bounds
MaxNotify == 3     \* Notify calls over a run
MaxAdvance == 5    \* Advance calls on the FollowUp over a run
MaxOther == 1      \* events the other user of the FollowUp's pool feeds it
MaxCalls == 3      \* Notify calls of the threads over a run

\* ------------------------------------------------------------ configuration
RequestConcurrency == 2

\* a global limit that leaves no slot beyond one query's own
ConcurrencyNoHeadroom == RequestConcurrency

Concurrency == 3
Timeout == 1

\* ------------------------------------------------------------------ inputs
QIDs == {1, 2}
Nodes == {1, 2, 3}          \* a node's key is its number
Self == 0
\* what the callers ask for: the target, the seeds and the number of closest
\* nodes wanted (closest_k) of each query id
TargetOf(q) == IF q = 1 THEN 3 ELSE 0
SeedsOf(q) == IF q = 1 THEN {<<1>>, <<3, 2, 1>>} ELSE {<<3, 2, 1>>}
KOf(q) == IF q = 1 THEN 2 ELSE 3
\* what a node answers: no closer peers, or two of them
CloserLists == {<<>>, <<3, 2>>}

Range(s) == {s[i] : i \in 1..Len(s)}

\* ------------------------------------------------------------ keys, distance
RECURSIVE Xor(_, _)
Xor(a, b) ==
  IF a = 0 THEN b
  ELSE IF b = 0 THEN a
  ELSE (((a % 2) + (b % 2)) % 2) + (2 * Xor(a \div 2, b \div 2))

Distance(n, target) == Xor(n, target)

Closer(a, b, target) ==
  \/ Distance(a, target) < Distance(b, target)
  \/ Distance(a, target) = Distance(b, target) /\ a <= b

RECURSIVE SortByDistance(_, _)
SortByDistance(S, target) ==
  IF S = {} THEN <<>>
  ELSE LET m == CHOOSE x \in S : \A y \in S : Closer(x, y, target)
       IN <<m>> \o SortByDistance(S \ {m}, target)

\* every node in ascending distance to each target in use (computed once)
Targets == {TargetOf(q) : q \in QIDs}

NodesByDistance == [t \in Targets |-> SortByDistance(Nodes, t)]

\* the nodes of S in ascending distance to the target
Sorted(S, target) == SelectSeq(NodesByDistance[target], LAMBDA n : n \in S)

Take(s, k) == IF Len(s) <= k THEN s ELSE SubSeq(s, 1, k)

\* ------------------------------------------------------ query state machine
\* elapsed is now - last_progress_at, the time since the query last made
\* progress; it is kept up to Timeout + 1, beyond which it decides nothing.
NewQuery(target, seed, k) ==
  [target |-> target,
   closest_k |-> k,
   nodes |-> [n \in Nodes |-> IF n \in Range(seed) /\ n # Self
                              THEN "NotContacted" ELSE "Absent"],
   in_flight |-> 0,
   elapsed |-> 0]

Present(qr) == {n \in Nodes : qr.nodes[n] # "Absent"}

WaitingNodes(qr) == {n \in Nodes : qr.nodes[n] = "Waiting"}

\* the K closest nodes that are not Unreachable
Window(qr) ==
  Take(Sorted({n \in Present(qr) : qr.nodes[n] # "Unreachable"}, qr.target), qr.closest_k)

\* the K closest Succeeded nodes, in ascending distance
ClosestSucceeded(qr) ==
  Take(Sorted({n \in Present(qr) : qr.nodes[n] = "Succeeded"}, qr.target), qr.closest_k)

\* the positions in the window w of the nodes still to contact
CandidatesIn(qr, w) == {i \in 1..Len(w) : qr.nodes[w[i]] = "NotContacted"}

Candidates(qr) == CandidatesIn(qr, Window(qr))

Min(S) == CHOOSE x \in S : \A y \in S : x <= y

QueryContact(qr, n) ==
  [st |-> "FindCloser", n |-> n,
   q |-> [qr EXCEPT !.nodes[n] = "Waiting", !.in_flight = @ + 1]]

\* a query with room for a request looks at its window w
QueryPollWindow(qr, w) ==
  IF CandidatesIn(qr, w) # {}
  THEN QueryContact(qr, w[Min(CandidatesIn(qr, w))])
  ELSE IF \A n \in Range(w) : qr.nodes[n] = "Succeeded"
  THEN [st |-> "Finished", n |-> 0, q |-> qr]
  ELSE [st |-> "WaitingWithCapacity", n |-> 0, q |-> qr]

\* QueryPoll without the per-query request limit
QueryPollNoLimit(qr) == QueryPollWindow(qr, Window(qr))

QueryPoll(qr) ==
  IF qr.in_flight >= RequestConcurrency
  THEN [st |-> "WaitingAtCapacity", n |-> 0, q |-> qr]
  ELSE QueryPollWindow(qr, Window(qr))

\* QueryNodeResponse that accepts an answer whatever the node's state
QueryNodeResponseAnyState(qr, n, closer) ==
  [qr EXCEPT
     !.nodes = [m \in Nodes |->
                  IF m = n THEN "Succeeded"
                  ELSE IF qr.nodes[m] = "Absent" /\ m \in Range(closer) /\ m # Self
                  THEN "NotContacted"
                  ELSE qr.nodes[m]],
     !.in_flight = IF qr.nodes[n] = "Waiting" THEN @ - 1 ELSE @,
     !.elapsed = 0]

QueryNodeResponse(qr, n, closer) ==
  IF qr.nodes[n] # "Waiting" THEN qr
  ELSE [qr EXCEPT
          !.nodes = [m \in Nodes |->
                       IF m = n THEN "Succeeded"
                       ELSE IF qr.nodes[m] = "Absent" /\ m \in Range(closer) /\ m # Self
                       THEN "NotContacted"
                       ELSE qr.nodes[m]],
          !.in_flight = @ - 1,
          !.elapsed = 0]

\* QueryNodeFailure that counts the failure as progress
QueryNodeFailureRefreshes(qr, n) ==
  IF qr.nodes[n] # "Waiting" THEN qr
  ELSE [qr EXCEPT !.nodes[n] = "Unreachable", !.in_flight = @ - 1, !.elapsed = 0]

QueryNodeFailure(qr, n) ==
  IF qr.nodes[n] # "Waiting" THEN qr
  ELSE [qr EXCEPT !.nodes[n] = "Unreachable", !.in_flight = @ - 1]

\* ------------------------------------------------------- pool state machine
NoNodes == [n \in Nodes |-> "Absent"]

PoolState(type, q, n, target, closest, final) ==
  [type |-> type, q |-> q, n |-> n, target |-> target, closest |-> closest, final |-> final]

PlainState(type) == PoolState(type, 0, 0, 0, <<>>, NoNodes)

EmptyPool == [queries |-> <<>>, order |-> <<>>, global_in_flight |-> 0]

Has(p, q) == q \in DOMAIN p.queries

\* RemoveQuery that forgets the requests the removed query had in flight
RemoveQueryKeepsCount(p, q) ==
  [queries |-> [x \in (DOMAIN p.queries) \ {q} |-> p.queries[x]],
   order |-> SelectSeq(p.order, LAMBDA x : x # q),
   global_in_flight |-> p.global_in_flight]

RemoveQuery(p, q) ==
  [queries |-> [x \in (DOMAIN p.queries) \ {q} |-> p.queries[x]],
   order |-> SelectSeq(p.order, LAMBDA x : x # q),
   global_in_flight |-> p.global_in_flight - p.queries[q].in_flight]

\* the final field records the node states at the moment the query ended
FinishQuery(p, q) ==
  [pool |-> RemoveQuery(p, q),
   st |-> PoolState("QueryFinished", q, 0, p.queries[q].target,
                    ClosestSucceeded(p.queries[q]), p.queries[q].nodes)]

TimedOut(qr) ==
  /\ qr.elapsed > Timeout
  /\ qr.in_flight = 0
  /\ Candidates(qr) = {}

PoolTimeout(p, q) ==
  [pool |-> RemoveQuery(p, q),
   st |-> PoolState("QueryTimeout", q, 0, 0, <<>>, NoNodes)]

\* the query q goes on with r, what its Poll answered
PoolIssue(p, q, r) ==
  IF r.st = "FindCloser"
  THEN [pool |-> [p EXCEPT !.queries[q] = r.q, !.global_in_flight = @ + 1],
        st |-> PoolState("FindCloser", q, r.n, r.q.target, <<>>, NoNodes)]
  ELSE FinishQuery(p, q)

PoolWork(p, q) == PoolIssue(p, q, QueryPoll(p.queries[q]))

\* the positions in insertion order of the queries that timed out
LateQueries(p) == {i \in 1..Len(p.order) : TimedOut(p.queries[p.order[i]])}

\* the positions of the queries that have a request to issue or have finished
WorkQueries(p) ==
  {i \in 1..Len(p.order) :
     QueryPoll(p.queries[p.order[i]]).st \in {"FindCloser", "Finished"}}

\* PoolScheduleOf without the global limit on the requests in flight
PoolScheduleOfNoLimit(p, late, work) ==
  IF p.order = <<>> THEN [pool |-> p, st |-> PlainState("Idle")]
  ELSE IF late # {} THEN PoolTimeout(p, p.order[Min(late)])
  ELSE IF work # {} THEN PoolWork(p, p.order[Min(work)])
  ELSE IF p.global_in_flight > 0
  THEN [pool |-> p, st |-> PlainState("WaitingWithCapacity")]
  ELSE [pool |-> p, st |-> PlainState("Idle")]

PoolScheduleOf(p, late, work) ==
  IF p.order = <<>> THEN [pool |-> p, st |-> PlainState("Idle")]
  ELSE IF late # {} THEN PoolTimeout(p, p.order[Min(late)])
  ELSE IF p.global_in_flight >= Concurrency
  THEN [pool |-> p, st |-> PlainState("WaitingAtCapacity")]
  ELSE IF work # {} THEN PoolWork(p, p.order[Min(work)])
  ELSE IF p.global_in_flight > 0
  THEN [pool |-> p, st |-> PlainState("WaitingWithCapacity")]
  ELSE [pool |-> p, st |-> PlainState("Idle")]

PoolSchedule(p) == PoolScheduleOf(p, LateQueries(p), WorkQueries(p))

\* AddQuery that starts the query afresh when its id is already present
AddQueryReplaces(p, q, target, seed) ==
  [p EXCEPT !.queries = (q :> NewQuery(target, seed, KOf(q)))
                          @@ [x \in (DOMAIN p.queries) \ {q} |-> p.queries[x]],
            !.order = IF Has(p, q) THEN @ ELSE Append(@, q),
            !.global_in_flight = IF Has(p, q) THEN @ - p.queries[q].in_flight ELSE @]

AddQuery(p, q, target, seed) ==
  IF Has(p, q) THEN p
  ELSE [p EXCEPT !.queries = (q :> NewQuery(target, seed, KOf(q))) @@ p.queries,
                 !.order = Append(p.order, q)]

\* the query q of the pool becomes qr
PoolSetQuery(p, q, qr) ==
  [p EXCEPT !.queries[q] = qr,
            !.global_in_flight = @ - (p.queries[q].in_flight - qr.in_flight)]

PoolNodeResponse(p, q, n, closer) ==
  IF ~Has(p, q) THEN p
  ELSE PoolSetQuery(p, q, QueryNodeResponse(p.queries[q], n, closer))

PoolNodeFailure(p, q, n) ==
  IF ~Has(p, q) THEN p
  ELSE PoolSetQuery(p, q, QueryNodeFailure(p.queries[q], n))

\* pool events: [type, q, n, nodes, target]
PoolEvent(type, q, n, nodes, target) ==
  [type |-> type, q |-> q, n |-> n, nodes |-> nodes, target |-> target]

EventPoolPoll == PoolEvent("Poll", 0, 0, <<>>, 0)

\* the pool after the event, before it looks for work
PoolApply(p, ev) ==
  IF ev.type = "AddFindCloserQuery" THEN AddQuery(p, ev.q, ev.target, ev.nodes)
  ELSE IF ev.type = "NodeResponse" THEN PoolNodeResponse(p, ev.q, ev.n, ev.nodes)
  ELSE IF ev.type = "NodeFailure" THEN PoolNodeFailure(p, ev.q, ev.n)
  ELSE p

PoolAdvance(p, ev) ==
  IF ev.type = "StopQuery" /\ Has(p, ev.q) THEN FinishQuery(p, ev.q)
  ELSE PoolSchedule(PoolApply(p, ev))

\* the clock advances by one unit
PoolTick(p) ==
  [p EXCEPT !.queries = [q \in DOMAIN p.queries |->
       [p.queries[q] EXCEPT !.elapsed = IF @ > Timeout THEN @ ELSE @ + 1]]]


\* ------------------------------------------------------ FollowUp broadcast
\* broadcast events: [type, n, nodes]
BroadcastEvent(type, n, nodes) == [type |-> type, n |-> n, nodes |-> nodes]

\* broadcast states: [type, q, n, target, contacted, errors]
BroadcastState(type, q, n, target, contacted, errors) ==
  [type |-> type, q |-> q, n |-> n, target |-> target,
   contacted |-> contacted, errors |-> errors]

NoBroadcastState == BroadcastState("None", 0, 0, 0, <<>>, <<>>)

NoPoolEvent == PoolEvent("None", 0, 0, <<>>, 0)

\* todo, waiting and success are maps keyed by the node: sets of nodes;
\* failed maps a node to its error
NewFollowUp(qid, seed, pool) ==
  [queryID |-> qid, target |-> TargetOf(qid), seed |-> seed, pool |-> pool,
   started |-> FALSE, closest |-> <<>>,
   todo |-> {}, waiting |-> {}, success |-> {}, failed |-> <<>>]

isQueryDone(f) == Len(f.closest) # 0

\* the nodes of S marked failed with the error err
MarkFailed(failed, S, err) ==
  [n \in (DOMAIN failed) \cup S |-> IF n \in S THEN err ELSE failed[n]]

\* [f, pev]: the FollowUp after the event and the pool event it maps to
handleEvent(f, ev) ==
  IF ev.type = "Stop"
  THEN IF isQueryDone(f) THEN [f |-> f, pev |-> NoPoolEvent]
       ELSE [f |-> f, pev |-> PoolEvent("StopQuery", f.queryID, 0, <<>>, 0)]
  ELSE IF ev.type = "NodeResponse"
  THEN [f |-> f, pev |-> PoolEvent("NodeResponse", f.queryID, ev.n, ev.nodes, 0)]
  ELSE IF ev.type = "NodeFailure"
  THEN [f |-> f, pev |-> PoolEvent("NodeFailure", f.queryID, ev.n, <<>>, 0)]
  ELSE IF ev.type = "StoreRecordSuccess"
  THEN [f |-> [f EXCEPT !.waiting = @ \ {ev.n}, !.success = @ \cup {ev.n}],
        pev |-> NoPoolEvent]
  ELSE IF ev.type = "StoreRecordFailure"
  THEN [f |-> [f EXCEPT !.waiting = @ \ {ev.n},
                        !.failed = MarkFailed(@, {ev.n}, "error")],
        pev |-> NoPoolEvent]
  ELSE \* Poll
       IF ~f.started
       THEN [f |-> [f EXCEPT !.started = TRUE],
             pev |-> PoolEvent("AddFindCloserQuery", f.queryID, 0, f.seed, f.target)]
       ELSE [f |-> f, pev |-> EventPoolPoll]

\* [f, out, term, pst]: the FollowUp, the state to return and whether to
\* return it at once, given r, the pool and the pool state after its Advance
FollowUpPoolState(f, r) ==
  IF r.st.type = "FindCloser"
  THEN [f |-> [f EXCEPT !.pool = r.pool], term |-> TRUE, pst |-> r.st,
        out |-> BroadcastState("FindCloser", r.st.q, r.st.n, r.st.target, <<>>, <<>>)]
  ELSE IF r.st.type \in {"WaitingAtCapacity", "WaitingWithCapacity"}
  THEN [f |-> [f EXCEPT !.pool = r.pool], term |-> TRUE, pst |-> r.st,
        out |-> BroadcastState("Waiting", f.queryID, 0, 0, <<>>, <<>>)]
  ELSE IF r.st.type = "QueryFinished"
  THEN IF Len(r.st.closest) = 0
       THEN [f |-> [f EXCEPT !.pool = r.pool], term |-> TRUE, pst |-> r.st,
             out |-> BroadcastState("Finished", f.queryID, 0, 0, <<>>, <<>>)]
       ELSE [f |-> [f EXCEPT !.pool = r.pool,
                             !.closest = r.st.closest,
                             !.todo = @ \cup Range(r.st.closest)],
             term |-> FALSE, pst |-> r.st, out |-> NoBroadcastState]
  ELSE IF r.st.type = "QueryTimeout"
  THEN [f |-> [f EXCEPT !.pool = r.pool], term |-> TRUE, pst |-> r.st,
        out |-> BroadcastState("Finished", f.queryID, 0, 0, <<>>, <<>>)]
  ELSE [f |-> [f EXCEPT !.pool = r.pool], term |-> FALSE, pst |-> r.st,
        out |-> NoBroadcastState]

FollowUpAdvancePool(f, pev) == FollowUpPoolState(f, PoolAdvance(f.pool, pev))

\* on Stop every node still in todo or waiting fails with "cancelled"
FollowUpCancel(f) ==
  [f EXCEPT !.todo = {}, !.waiting = {},
            !.failed = MarkFailed(@, f.todo \cup f.waiting, "cancelled")]

\* the rest of Advance without the check for stores still awaited
FollowUpNextIgnoresWaiting(f, isStopEvent, pst) ==
  IF f.todo # {}
  THEN {[f |-> [f EXCEPT !.todo = @ \ {n}, !.waiting = @ \cup {n}],
         out |-> BroadcastState("StoreRecord", f.queryID, n, f.target, <<>>, <<>>),
         pst |-> pst] : n \in f.todo}
  ELSE IF isStopEvent \/ (f.todo = {} /\ Len(f.closest) # 0)
  THEN {[f |-> f, pst |-> pst,
         out |-> BroadcastState("Finished", f.queryID, 0, 0, f.closest, f.failed)]}
  ELSE {[f |-> f, out |-> BroadcastState("Idle", 0, 0, 0, <<>>, <<>>), pst |-> pst]}

\* the rest of Advance, once the event and the pool are dealt with: a store
\* request for a node of todo, Waiting, Finished or Idle. Advance ranges over
\* the todo map, whose order is not fixed: the set of the results [f, out, pst]
\* the call may have.
FollowUpNext(f, isStopEvent, pst) ==
  IF f.todo # {}
  THEN {[f |-> [f EXCEPT !.todo = @ \ {n}, !.waiting = @ \cup {n}],
         out |-> BroadcastState("StoreRecord", f.queryID, n, f.target, <<>>, <<>>),
         pst |-> pst] : n \in f.todo}
  ELSE IF f.waiting # {}
  THEN {[f |-> f, out |-> BroadcastState("Waiting", 0, 0, 0, <<>>, <<>>), pst |-> pst]}
  ELSE IF isStopEvent \/ (f.todo = {} /\ Len(f.closest) # 0)
  THEN {[f |-> f, pst |-> pst,
         out |-> BroadcastState("Finished", f.queryID, 0, 0, f.closest, f.failed)]}
  ELSE {[f |-> f, out |-> BroadcastState("Idle", 0, 0, 0, <<>>, <<>>), pst |-> pst]}

\* Advance after the pool answered a (or was not asked)
FollowUpAfterPool(a, ev) ==
  IF a.term THEN {[f |-> a.f, out |-> a.out, pst |-> a.pst]}
  ELSE FollowUpNext(IF ev.type = "Stop" THEN FollowUpCancel(a.f) ELSE a.f,
                    ev.type = "Stop", a.pst)

\* Advance after handleEvent answered h
FollowUpAfterEvent(h, ev) ==
  FollowUpAfterPool(
    IF h.pev.type # "None" THEN FollowUpAdvancePool(h.f, h.pev)
    ELSE [f |-> h.f, term |-> FALSE, pst |-> PlainState("None"),
          out |-> NoBroadcastState],
    ev)

FollowUpAdvance(f, ev) == FollowUpAfterEvent(handleEvent(f, ev), ev)


\* ------------------------------------------------------ PooledQueryBehaviour
VARIABLES
  pool,             \* the query pool (owned by the behaviour)
  waiters,          \* QueryID -> notifier
  pendingOutbound,  \* queue of outbound events
  pendingInbound,   \* queue of inbound events
  ready,            \* number of signals in the ready channel (capacity 1)
  wlog,             \* per notifier, the calls made on it (Notify(ev) and Close)
  pstates,          \* the pool states returned to the last Perform call, in order
  out,              \* the event returned by the last Perform call
  nNotify,          \* Notify calls so far
  ended,            \* notifiers that were registered for a query when it left the pool
  stopped,          \* <<q, n>>: q was stopped while its request to n was in flight
  asked,            \* <<q, n>>: a request of q to n was handed to the transport
  followUp,         \* a FollowUp state machine, with the query pool it refers to
  bstate,           \* the state returned by the last Advance call on followUp
  bpst,             \* the pool state that Advance call got from the pool, if any
  bev,              \* the event of that Advance call
  nFinished,        \* Advance calls that returned Finished so far (up to 2)
  nAdvance,         \* Advance calls so far
  nOther,           \* events of the pool's other user so far
  fasked,           \* nodes the pool asked on behalf of followUp's query
  fstored,          \* nodes followUp asked its caller to store the record with
  fstoreLog,        \* the nodes of the StoreRecord states Advance returned, in order
  pc,               \* where each thread is in its Notify or Perform call
  performMu,        \* the thread that holds performMu, or NoThread
  pendingInboundMu, \* the thread that holds pendingInboundMu, or NoThread
  local,            \* each thread's local variables: ev, ok, hasPendingInbound
  touched,          \* the last step: its thread, its call, the fields it accessed
  accepted          \* the events Notify appended to pendingInbound, in order

bvars == <<pool, waiters, pendingOutbound, pendingInbound, ready, wlog,
           pstates, out, nNotify, ended, stopped, asked>>

fvars == <<followUp, bstate, bpst, bev, nFinished, nAdvance, nOther, fasked, fstored,
           fstoreLog>>

cvars == <<pc, performMu, pendingInboundMu, local, touched, accepted>>

vars == <<bvars, fvars, cvars>>

\* behaviour events, inbound and outbound: [type, q, n, nodes, target, w]
Event(type, q, n, nodes, target, w) ==
  [type |-> type, q |-> q, n |-> n, nodes |-> nodes, target |-> target, w |-> w]

NoEvent == Event("None", 0, 0, <<>>, 0, 0)

\* a call on a notifier: Notify(EventQueryProgressed), Notify(EventQueryFinished), Close
Call(type, q, n, closest) == [type |-> type, q |-> q, n |-> n, closest |-> closest]

WaiterNotify(s, w, call) == [s EXCEPT !.wlog[w] = Append(@, call)]

WaiterClose(s, w) == [s EXCEPT !.wlog[w] = Append(@, Call("Close", 0, 0, <<>>))]

Result(s, ev, ok) == [s |-> s, ev |-> ev, ok |-> ok]

nextPendingOutbound(s) ==
  IF Len(s.pendingOutbound) = 0 THEN Result(s, NoEvent, FALSE)
  ELSE Result([s EXCEPT !.pendingOutbound = Tail(@)], Head(s.pendingOutbound), TRUE)

\* nextPendingInbound that takes the newest event instead of the oldest
nextPendingInboundNewest(s) ==
  IF Len(s.pendingInbound) = 0 THEN Result(s, NoEvent, FALSE)
  ELSE Result([s EXCEPT !.pendingInbound = SubSeq(@, 1, Len(@) - 1)],
              s.pendingInbound[Len(s.pendingInbound)], TRUE)

nextPendingInbound(s) ==
  IF Len(s.pendingInbound) = 0 THEN Result(s, NoEvent, FALSE)
  ELSE Result([s EXCEPT !.pendingInbound = Tail(@)], Head(s.pendingInbound), TRUE)

\* queueAddNodeEvents that queues an event for the first closer node only
queueAddNodeEventsFirst(s, nodes) ==
  IF nodes = <<>> THEN s
  ELSE [s EXCEPT !.pendingOutbound =
                   Append(@, Event("AddNode", 0, Head(nodes), <<>>, 0, 0))]

RECURSIVE queueAddNodeEvents(_, _)
queueAddNodeEvents(s, nodes) ==
  IF nodes = <<>> THEN s
  ELSE queueAddNodeEvents(
         [s EXCEPT !.pendingOutbound = Append(@, Event("AddNode", 0, Head(nodes), <<>>, 0, 0))],
         Tail(nodes))

queueNonConnectivityEvent(s, nid) ==
  [s EXCEPT !.pendingOutbound = Append(@, Event("NotifyNonConnectivity", 0, nid, <<>>, 0, 0))]

\* advancePoolState that reports a finished query without its closest nodes
advancePoolStateNoClosest(s, st) ==
  IF st.type = "FindCloser"
  THEN Result(s, Event("GetCloserNodes", st.q, st.n, <<>>, st.target, 0), TRUE)
  ELSE IF st.type = "QueryFinished"
  THEN IF st.q \in DOMAIN s.waiters
       THEN Result(WaiterClose(WaiterNotify(s, s.waiters[st.q],
                                            Call("Finished", st.q, 0, <<>>)),
                               s.waiters[st.q]),
                   NoEvent, FALSE)
       ELSE Result(s, NoEvent, FALSE)
  ELSE Result(s, NoEvent, FALSE)

\* advancePoolState that notifies the waiter of a finished query and leaves it open
advancePoolStateNoClose(s, st) ==
  IF st.type = "FindCloser"
  THEN Result(s, Event("GetCloserNodes", st.q, st.n, <<>>, st.target, 0), TRUE)
  ELSE IF st.type = "QueryFinished"
  THEN IF st.q \in DOMAIN s.waiters
       THEN Result(WaiterNotify(s, s.waiters[st.q],
                                Call("Finished", st.q, 0, st.closest)),
                   NoEvent, FALSE)
       ELSE Result(s, NoEvent, FALSE)
  ELSE Result(s, NoEvent, FALSE)

\* the switch of advancePool on the pool state st
advancePoolState(s, st) ==
  IF st.type = "FindCloser"
  THEN Result(s, Event("GetCloserNodes", st.q, st.n, <<>>, st.target, 0), TRUE)
  ELSE IF st.type = "QueryFinished"
  THEN IF st.q \in DOMAIN s.waiters
       THEN Result(WaiterClose(WaiterNotify(s, s.waiters[st.q],
                                            Call("Finished", st.q, 0, st.closest)),
                               s.waiters[st.q]),
                   NoEvent, FALSE)
       ELSE Result(s, NoEvent, FALSE)
  ELSE Result(s, NoEvent, FALSE)   \* waiting, idle, and QueryTimeout ("TODO")

\* r is what the pool answered: the pool after the event and its state
advancePoolResult(s, r) ==
  advancePoolState([s EXCEPT !.pool = r.pool, !.pstates = Append(@, r.st)], r.st)

advancePool(s, ev) == advancePoolResult(s, PoolAdvance(s.pool, ev))

\* perfomInbound that gives the pool Poll in place of StopQuery
perfomInboundStopAsPoll(s, ev) ==
  IF ev.type = "StartFindCloserQuery"
  THEN advancePool(
         IF ev.w # 0 THEN [s EXCEPT !.waiters = (ev.q :> ev.w) @@ @] ELSE s,
         PoolEvent("AddFindCloserQuery", ev.q, 0, ev.nodes, ev.target))
  ELSE IF ev.type = "StopQuery"
  THEN advancePool(s, EventPoolPoll)
  ELSE IF ev.type = "GetCloserNodesSuccess"
  THEN advancePool(
         IF ev.q \in DOMAIN s.waiters
         THEN WaiterNotify(queueAddNodeEvents(s, ev.nodes), s.waiters[ev.q],
                           Call("Progressed", ev.q, ev.n, <<>>))
         ELSE queueAddNodeEvents(s, ev.nodes),
         PoolEvent("NodeResponse", ev.q, ev.n, ev.nodes, 0))
  ELSE advancePool(queueNonConnectivityEvent(s, ev.n),
                   PoolEvent("NodeFailure", ev.q, ev.n, <<>>, 0))

\* the switch of perfomNextInbound on the event ev, s being the behaviour
\* with ev taken off pendingInbound
perfomInbound(s, ev) ==
  IF ev.type = "StartFindCloserQuery"
  THEN advancePool(
         IF ev.w # 0 THEN [s EXCEPT !.waiters = (ev.q :> ev.w) @@ @] ELSE s,
         PoolEvent("AddFindCloserQuery", ev.q, 0, ev.nodes, ev.target))
  ELSE IF ev.type = "StopQuery"
  THEN advancePool(s, PoolEvent("StopQuery", ev.q, 0, <<>>, 0))
  ELSE IF ev.type = "GetCloserNodesSuccess"
  THEN advancePool(
         IF ev.q \in DOMAIN s.waiters
         THEN WaiterNotify(queueAddNodeEvents(s, ev.nodes), s.waiters[ev.q],
                           Call("Progressed", ev.q, ev.n, <<>>))
         ELSE queueAddNodeEvents(s, ev.nodes),
         PoolEvent("NodeResponse", ev.q, ev.n, ev.nodes, 0))
  ELSE \* GetCloserNodesFailure
       advancePool(queueNonConnectivityEvent(s, ev.n),
                   PoolEvent("NodeFailure", ev.q, ev.n, <<>>, 0))

perfomNextInbound(s) ==
  IF Len(s.pendingInbound) = 0 THEN Result(s, NoEvent, FALSE)
  ELSE perfomInbound(nextPendingInbound(s).s, nextPendingInbound(s).ev)

\* the capacity of the ready channel
ReadyCap == 1

\* select { case p.ready <- struct{}{}: default: } with every signal kept
SignalReadyUnbounded(s) == [s EXCEPT !.ready = @ + 1]

\* select { case p.ready <- struct{}{}: default: }: a send that is dropped
\* when the channel is full
SignalReady(s) == [s EXCEPT !.ready = IF @ < ReadyCap THEN @ + 1 ELSE @]

updateReadyStatus(s) ==
  IF Len(s.pendingOutbound) # 0 THEN SignalReady(s)
  ELSE IF Len(s.pendingInbound) # 0 THEN SignalReady(s)
  ELSE s

\* Perform after advancePool(Poll) answered r
PerformAfterPoll(r) == IF r.ok THEN r ELSE nextPendingOutbound(r.s)

\* Perform after perfomNextInbound answered r
PerformAfterInbound(r) ==
  IF r.ok THEN r ELSE PerformAfterPoll(advancePool(r.s, EventPoolPoll))

PerformBody(s) ==
  IF nextPendingOutbound(s).ok THEN nextPendingOutbound(s)
  ELSE PerformAfterInbound(perfomNextInbound(s))

\* the deferred updateReadyStatus runs on the way out
PerformReturn(r) == Result(updateReadyStatus(r.s), r.ev, r.ok)

PerformCall(s) == PerformReturn(PerformBody([s EXCEPT !.pstates = <<>>]))

\* Notify's append to pendingInbound
appendPendingInbound(s, ev) == [s EXCEPT !.pendingInbound = Append(@, ev)]

NotifyCall(s, ev) == SignalReady(appendPendingInbound(s, ev))

\* the behaviour's fields as one value
Beh ==
  [pool |-> pool, waiters |-> waiters, pendingOutbound |-> pendingOutbound,
   pendingInbound |-> pendingInbound, ready |-> ready,
   wlog |-> wlog, pstates |-> pstates]

SetBeh(s) ==
  /\ pool' = s.pool
  /\ waiters' = s.waiters
  /\ pendingOutbound' = s.pendingOutbound
  /\ pendingInbound' = s.pendingInbound
  /\ ready' = s.ready
  /\ wlog' = s.wlog
  /\ pstates' = s.pstates

BehaviourInit ==
  /\ pool = EmptyPool
  /\ waiters = <<>>
  /\ pendingOutbound = <<>>
  /\ pendingInbound = <<>>
  /\ ready = 0
  /\ wlog = <<>>
  /\ pstates = <<>>
  /\ out = NoEvent
  /\ nNotify = 0
  /\ ended = {}
  /\ stopped = {}
  /\ asked = {}

FollowUpInit(qid, seed) ==
  /\ followUp = NewFollowUp(qid, seed, EmptyPool)
  /\ bstate = NoBroadcastState
  /\ bpst = PlainState("None")
  /\ bev = "None"
  /\ nFinished = 0
  /\ nAdvance = 0
  /\ nOther = 0
  /\ fasked = {}
  /\ fstored = {}
  /\ fstoreLog = <<>>

Threads == {1, 2}

NoThread == 0

\* a thread's local variables
Local(ev, ok, has) == [ev |-> ev, ok |-> ok, hasPendingInbound |-> has]

NoLocal == Local(NoEvent, FALSE, FALSE)

Touch(t, call, fields) == [t |-> t, call |-> call, fields |-> fields]

ConcurrentInit ==
  /\ pc = [t \in Threads |-> "idle"]
  /\ performMu = NoThread
  /\ pendingInboundMu = NoThread
  /\ local = [t \in Threads |-> NoLocal]
  /\ touched = Touch(NoThread, "None", {})
  /\ accepted = <<>>

Init == BehaviourInit /\ FollowUpInit(1, <<1>>) /\ ConcurrentInit

\* the notifier a start event may carry: none, or a new one
NewNotifiers == {0, Len(wlog) + 1}

\* The callers start and stop queries at will; the transport answers, once or
\* more and however late, the requests it was handed.
InboundEvents ==
  UNION {{Event("StartFindCloserQuery", q, 0, seed, TargetOf(q), w) :
             seed \in SeedsOf(q), w \in NewNotifiers} : q \in QIDs}
  \cup {Event("StopQuery", q, 0, <<>>, 0, 0) : q \in QIDs}
  \cup {Event("GetCloserNodesSuccess", a[1], a[2], c, 0, 0) : a \in asked, c \in CloserLists}
  \cup {Event("GetCloserNodesFailure", a[1], a[2], <<>>, 0, 0) : a \in asked}

Notify(ev) ==
  /\ nNotify < MaxNotify
  /\ nNotify' = nNotify + 1
  /\ SetBeh([NotifyCall(Beh, ev) EXCEPT
               !.wlog = IF ev.w # 0 THEN Append(@, <<>>) ELSE @])
  /\ UNCHANGED <<out, ended, stopped, asked>>
  /\ UNCHANGED <<fvars, cvars>>

\* what the Perform call is about to take from pendingInbound, if anything
Handling ==
  IF pendingOutbound = <<>> /\ pendingInbound # <<>>
  THEN Head(pendingInbound) ELSE NoEvent

\* r is what the call returns and the behaviour it leaves, ev the inbound
\* event it took, if any
PerformStep(r, ev) ==
  /\ SetBeh(r.s)
  /\ out' = r.ev
  /\ ended' = ended \cup
       {r.s.waiters[r.s.pstates[i].q] : i \in {j \in 1..Len(r.s.pstates) :
           /\ r.s.pstates[j].type \in {"QueryFinished", "QueryTimeout"}
           /\ r.s.pstates[j].q \in DOMAIN r.s.waiters}}
  /\ stopped' =
       IF ev.type = "StopQuery" /\ Has(pool, ev.q)
       THEN stopped \cup {<<ev.q, n>> : n \in WaitingNodes(pool.queries[ev.q])}
       ELSE IF ev.type = "StartFindCloserQuery" /\ ~Has(pool, ev.q)
       THEN {p \in stopped : p[1] # ev.q}
       ELSE stopped
  /\ asked' = IF r.ev.type = "GetCloserNodes"
              THEN asked \cup {<<r.ev.q, r.ev.n>>} ELSE asked
  /\ UNCHANGED nNotify
  /\ UNCHANGED <<fvars, cvars>>

Perform == PerformStep(PerformCall(Beh), Handling)

Tick ==
  /\ PoolTick(pool) # pool
  /\ pool' = PoolTick(pool)
  /\ UNCHANGED <<waiters, pendingOutbound, pendingInbound, ready, wlog,
                 pstates, out, nNotify, ended, stopped, asked>>
  /\ UNCHANGED <<fvars, cvars>>

Next ==
  \/ \E ev \in InboundEvents : Notify(ev)
  \/ Perform
  \/ Tick

Spec == Init /\ [][Next]_vars

\* a Perform call made now would change a field of the behaviour
PerformPending == PerformCall(Beh).s # Beh

\* The driver calls Perform again and again: weak fairness of Perform, with
\* PerformPending (which implies ENABLED <<Perform>>_vars) as the condition
\* under which a call is due.
PerformAgain == []<>(~PerformPending) \/ []<><<Perform>>_vars

PolledSpec == Spec /\ PerformAgain

\* ---------------------------------------------- the FollowUp and its callers
FInit ==
  /\ BehaviourInit
  /\ \E q \in QIDs : \E seed \in SeedsOf(q) : FollowUpInit(q, seed)
  /\ ConcurrentInit

\* the other query the shared pool may run
OtherOf(q) == CHOOSE o \in QIDs : o # q

\* The caller polls and stops at will and answers the requests it was handed,
\* to find closer nodes or to store the record, once or more and however late.
BroadcastEvents ==
  {BroadcastEvent("Poll", 0, <<>>), BroadcastEvent("Stop", 0, <<>>)}
  \cup {BroadcastEvent("NodeResponse", n, c) : n \in fasked, c \in CloserLists}
  \cup {BroadcastEvent("NodeFailure", n, <<>>) : n \in fasked}
  \cup {BroadcastEvent("StoreRecordSuccess", n, <<>>) : n \in fstored}
  \cup {BroadcastEvent("StoreRecordFailure", n, <<>>) : n \in fstored}

AskedOf(p, q) == IF Has(p, q) THEN WaitingNodes(p.queries[q]) ELSE {}

Advance(ev) ==
  /\ nAdvance < MaxAdvance
  /\ \E r \in FollowUpAdvance(followUp, ev) :
       /\ followUp' = r.f
       /\ bstate' = r.out
       /\ bpst' = r.pst
       /\ fasked' = fasked \cup AskedOf(r.f.pool, followUp.queryID)
       /\ fstored' = IF r.out.type = "StoreRecord"
                     THEN fstored \cup {r.out.n} ELSE fstored
       /\ fstoreLog' = IF r.out.type = "StoreRecord"
                       THEN Append(fstoreLog, r.out.n) ELSE fstoreLog
       /\ nFinished' = IF r.out.type = "Finished" /\ nFinished < 2
                       THEN nFinished + 1 ELSE nFinished
  /\ bev' = ev.type
  /\ nAdvance' = nAdvance + 1
  /\ UNCHANGED nOther
  /\ UNCHANGED <<bvars, cvars>>

\* what another broadcast does to the pool it shares with followUp
OtherEvents ==
  LET o == OtherOf(followUp.queryID)
  IN {PoolEvent("AddFindCloserQuery", o, 0, seed, TargetOf(o)) : seed \in SeedsOf(o)}
     \cup {PoolEvent("NodeResponse", o, n, c, 0) :
              n \in AskedOf(followUp.pool, o), c \in CloserLists}
     \cup {PoolEvent("NodeFailure", o, n, <<>>, 0) : n \in AskedOf(followUp.pool, o)}
     \cup {PoolEvent("StopQuery", o, 0, <<>>, 0), EventPoolPoll}

OtherAdvance(pev) ==
  /\ nOther < MaxOther
  /\ nOther' = nOther + 1
  /\ followUp' = [followUp EXCEPT !.pool = PoolAdvance(@, pev).pool]
  /\ fasked' = fasked \cup AskedOf(followUp'.pool, followUp.queryID)
  /\ UNCHANGED <<bstate, bpst, bev, nFinished, nAdvance, fstored, fstoreLog>>
  /\ UNCHANGED <<bvars, cvars>>

FTick ==
  /\ PoolTick(followUp.pool) # followUp.pool
  /\ followUp' = [followUp EXCEPT !.pool = PoolTick(@)]
  /\ UNCHANGED <<bstate, bpst, bev, nFinished, nAdvance, nOther, fasked, fstored,
                 fstoreLog>>
  /\ UNCHANGED <<bvars, cvars>>

FNext ==
  \/ \E ev \in BroadcastEvents : Advance(ev)
  \/ \E pev \in OtherEvents : OtherAdvance(pev)
  \/ FTick

FSpec == FInit /\ [][FNext]_vars

\* ---------------------------- the FollowUp and a broadcast without seeds
\* The broadcast that shares the pool may also have been started with an
\* empty seed list (NewFollowUp takes any list, part_000:88-95).
OtherEventsAnySeed ==
  OtherEvents
  \cup {PoolEvent("AddFindCloserQuery", OtherOf(followUp.queryID), 0, <<>>,
                  TargetOf(OtherOf(followUp.queryID)))}

SNext ==
  \/ \E ev \in BroadcastEvents : Advance(ev)
  \/ \E pev \in OtherEventsAnySeed : OtherAdvance(pev)
  \/ FTick

SSpec == FInit /\ [][SNext]_vars

\* ------------------------------- threads calling Notify and Perform at once
\* Each thread calls Notify and Perform at will. A call is a sequence of steps,
\* one per access to the behaviour's fields or to a mutex; a Lock is a step
\* that the thread can take only while the mutex is free.

\* the events the threads notify of: those of one query, started with one seed
ThreadEvents ==
  {ev \in InboundEvents :
     ev.q = 1 /\ (ev.type = "StartFindCloserQuery" => ev.nodes = <<3, 2, 1>>)}

\* the fields of the behaviour left as they are
KeepBeh ==
  UNCHANGED <<pool, waiters, pendingOutbound, pendingInbound, ready, wlog, pstates>>

KeepGhosts == UNCHANGED <<out, nNotify, ended, stopped, asked, accepted>>

KeepLocks == UNCHANGED <<performMu, pendingInboundMu>>

\* thread t moves on to position to, with its local variables loc, having
\* accessed fields in the call
Step(t, to, loc, call, fields) ==
  /\ pc' = [pc EXCEPT ![t] = to]
  /\ local' = [local EXCEPT ![t] = loc]
  /\ touched' = Touch(t, call, fields)
  /\ UNCHANGED fvars

\* Notify: p.pendingInboundMu.Lock()
NotifyLock(t, ev) ==
  /\ pc[t] = "idle"
  /\ nNotify < MaxCalls
  /\ pendingInboundMu = NoThread
  /\ pendingInboundMu' = t
  /\ nNotify' = nNotify + 1
  /\ wlog' = IF ev.w # 0 THEN Append(wlog, <<>>) ELSE wlog
  /\ Step(t, "NotifyAppend", Local(ev, FALSE, FALSE), "Notify", {})
  /\ UNCHANGED <<pool, waiters, pendingOutbound, pendingInbound, ready, pstates>>
  /\ UNCHANGED <<out, ended, stopped, asked, accepted, performMu>>

\* Notify: p.pendingInbound = append(p.pendingInbound, ...)
NotifyAppend(t) ==
  /\ pc[t] = "NotifyAppend"
  /\ SetBeh(appendPendingInbound(Beh, local[t].ev))
  /\ accepted' = Append(accepted, local[t].ev)
  /\ Step(t, "NotifySignal", local[t], "Notify", {"pendingInbound"})
  /\ UNCHANGED <<out, nNotify, ended, stopped, asked>>
  /\ KeepLocks

\* Notify: the send on p.ready
NotifySignal(t) ==
  /\ pc[t] = "NotifySignal"
  /\ SetBeh(SignalReady(Beh))
  /\ Step(t, "NotifyUnlock", local[t], "Notify", {"ready"})
  /\ KeepGhosts /\ KeepLocks

\* Notify: the deferred p.pendingInboundMu.Unlock()
NotifyUnlock(t) ==
  /\ pc[t] = "NotifyUnlock"
  /\ pendingInboundMu' = NoThread
  /\ Step(t, "idle", NoLocal, "Notify", {})
  /\ KeepBeh /\ KeepGhosts /\ UNCHANGED performMu

\* Perform that enters without taking performMu
PerformEnterNoLock(t) ==
  /\ pc[t] = "idle"
  /\ pstates' = <<>>
  /\ Step(t, "PerformOutbound", NoLocal, "Perform", {})
  /\ UNCHANGED <<pool, waiters, pendingOutbound, pendingInbound, ready, wlog>>
  /\ KeepGhosts /\ KeepLocks

\* Perform: p.performMu.Lock()
PerformLock(t) ==
  /\ pc[t] = "idle"
  /\ performMu = NoThread
  /\ performMu' = t
  /\ pstates' = <<>>
  /\ Step(t, "PerformOutbound", NoLocal, "Perform", {})
  /\ UNCHANGED <<pool, waiters, pendingOutbound, pendingInbound, ready, wlog>>
  /\ KeepGhosts /\ UNCHANGED pendingInboundMu

\* thread t made a step of Perform that left result r, accessing fields, and
\* goes on at position yes when r.ok and at position no otherwise
PerformResult(t, r, yes, no, fields) ==
  /\ SetBeh(r.s)
  /\ Step(t, IF r.ok THEN yes ELSE no, Local(r.ev, r.ok, FALSE), "Perform", fields)
  /\ KeepGhosts /\ KeepLocks

\* Perform: ev, ok := p.nextPendingOutbound()
PerformOutbound(t) ==
  /\ pc[t] = "PerformOutbound"
  /\ PerformResult(t, nextPendingOutbound(Beh), "UpdateReady", "InboundLock",
                   {"pendingOutbound"})

\* nextPendingInbound: p.pendingInboundMu.Lock()
InboundLock(t) ==
  /\ pc[t] = "InboundLock"
  /\ pendingInboundMu = NoThread
  /\ pendingInboundMu' = t
  /\ Step(t, "InboundPop", local[t], "Perform", {})
  /\ KeepBeh /\ KeepGhosts /\ UNCHANGED performMu

\* nextPendingInbound: the head of p.pendingInbound is taken, if there is one
InboundPop(t) ==
  /\ pc[t] = "InboundPop"
  /\ PerformResult(t, nextPendingInbound(Beh), "InboundUnlock", "InboundUnlock",
                   {"pendingInbound"})

\* nextPendingInbound: the deferred p.pendingInboundMu.Unlock()
InboundUnlock(t) ==
  /\ pc[t] = "InboundUnlock"
  /\ pendingInboundMu' = NoThread
  /\ Step(t, IF local[t].ok THEN "PerformInbound" ELSE "PerformPoll", local[t],
          "Perform", {})
  /\ KeepBeh /\ KeepGhosts /\ UNCHANGED performMu

\* perfomNextInbound: the switch on the event taken
PerformInbound(t) ==
  /\ pc[t] = "PerformInbound"
  /\ PerformResult(t, perfomInbound(Beh, local[t].ev), "UpdateReady", "PerformPoll",
                   {"pool", "waiters", "pendingOutbound"})

\* Perform: p.advancePool(ctx, &query.EventPoolPoll{})
PerformPoll(t) ==
  /\ pc[t] = "PerformPoll"
  /\ PerformResult(t, advancePool(Beh, EventPoolPoll), "UpdateReady", "LastOutbound",
                   {"pool", "waiters"})

\* Perform: return p.nextPendingOutbound()
LastOutbound(t) ==
  /\ pc[t] = "LastOutbound"
  /\ PerformResult(t, nextPendingOutbound(Beh), "UpdateReady", "UpdateReady",
                   {"pendingOutbound"})

\* updateReadyStatus: if len(p.pendingOutbound) != 0, with its send on p.ready
UpdateReady(t) ==
  /\ pc[t] = "UpdateReady"
  /\ IF Len(pendingOutbound) # 0
     THEN /\ SetBeh(SignalReady(Beh))
          /\ Step(t, "PerformUnlock", local[t], "Perform", {"pendingOutbound", "ready"})
     ELSE /\ KeepBeh
          /\ Step(t, "ReadyLock", local[t], "Perform", {"pendingOutbound"})
  /\ KeepGhosts /\ KeepLocks

\* updateReadyStatus: p.pendingInboundMu.Lock()
ReadyLock(t) ==
  /\ pc[t] = "ReadyLock"
  /\ pendingInboundMu = NoThread
  /\ pendingInboundMu' = t
  /\ Step(t, "ReadyRead", local[t], "Perform", {})
  /\ KeepBeh /\ KeepGhosts /\ UNCHANGED performMu

\* updateReadyStatus: hasPendingInbound := len(p.pendingInbound) != 0
ReadyRead(t) ==
  /\ pc[t] = "ReadyRead"
  /\ Step(t, "ReadyUnlock", [local[t] EXCEPT !.hasPendingInbound = Len(pendingInbound) # 0],
          "Perform", {"pendingInbound"})
  /\ KeepBeh /\ KeepGhosts /\ KeepLocks

\* updateReadyStatus that does not signal ready for a pending inbound event
ReadyUnlockNoSignal(t) ==
  /\ pc[t] = "ReadyUnlock"
  /\ pendingInboundMu' = NoThread
  /\ Step(t, "PerformUnlock", local[t], "Perform", {})
  /\ KeepBeh /\ KeepGhosts /\ UNCHANGED performMu

\* updateReadyStatus: p.pendingInboundMu.Unlock()
ReadyUnlock(t) ==
  /\ pc[t] = "ReadyUnlock"
  /\ pendingInboundMu' = NoThread
  /\ Step(t, IF local[t].hasPendingInbound THEN "ReadySignal" ELSE "PerformUnlock",
          local[t], "Perform", {})
  /\ KeepBeh /\ KeepGhosts /\ UNCHANGED performMu

\* updateReadyStatus: the send on p.ready when hasPendingInbound
ReadySignal(t) ==
  /\ pc[t] = "ReadySignal"
  /\ SetBeh(SignalReady(Beh))
  /\ Step(t, "PerformUnlock", local[t], "Perform", {"ready"})
  /\ KeepGhosts /\ KeepLocks

\* Perform: the deferred p.performMu.Unlock() and the return
PerformUnlock(t) ==
  /\ pc[t] = "PerformUnlock"
  /\ performMu' = NoThread
  /\ out' = local[t].ev
  /\ asked' = IF local[t].ev.type = "GetCloserNodes"
              THEN asked \cup {<<local[t].ev.q, local[t].ev.n>>} ELSE asked
  /\ Step(t, "idle", NoLocal, "Perform", {})
  /\ KeepBeh /\ UNCHANGED <<nNotify, ended, stopped, accepted, pendingInboundMu>>

\* the event loop receives from the channel Ready() returns
RecvReady ==
  /\ ready > 0
  /\ ready' = ready - 1
  /\ touched' = Touch(NoThread, "Ready", {"ready"})
  /\ UNCHANGED <<pool, waiters, pendingOutbound, pendingInbound, wlog, pstates>>
  /\ UNCHANGED <<pc, local>>
  /\ KeepGhosts /\ KeepLocks
  /\ UNCHANGED fvars

CNext ==
  \/ \E t \in Threads : \E ev \in ThreadEvents : NotifyLock(t, ev)
  \/ \E t \in Threads : NotifyAppend(t)
  \/ \E t \in Threads : NotifySignal(t)
  \/ \E t \in Threads : NotifyUnlock(t)
  \/ \E t \in Threads : PerformLock(t)
  \/ \E t \in Threads : PerformOutbound(t)
  \/ \E t \in Threads : InboundLock(t)
  \/ \E t \in Threads : InboundPop(t)
  \/ \E t \in Threads : InboundUnlock(t)
  \/ \E t \in Threads : PerformInbound(t)
  \/ \E t \in Threads : PerformPoll(t)
  \/ \E t \in Threads : LastOutbound(t)
  \/ \E t \in Threads : UpdateReady(t)
  \/ \E t \in Threads : ReadyLock(t)
  \/ \E t \in Threads : ReadyRead(t)
  \/ \E t \in Threads : ReadyUnlock(t)
  \/ \E t \in Threads : ReadySignal(t)
  \/ \E t \in Threads : PerformUnlock(t)
  \/ RecvReady

CSpec == Init /\ [][CNext]_vars

\* ------------------------------------- one driver and the callers of Notify
\* The event loop is the one caller of Perform: it waits for a signal on the
\* channel Ready() returns and then calls Perform once. The other threads
\* call Notify at will.
Driver == 3

DInit ==
  /\ BehaviourInit
  /\ FollowUpInit(1, <<1>>)
  /\ pc = [t \in Threads \cup {Driver} |-> "idle"]
  /\ performMu = NoThread
  /\ pendingInboundMu = NoThread
  /\ local = [t \in Threads \cup {Driver} |-> NoLocal]
  /\ touched = Touch(NoThread, "None", {})
  /\ accepted = <<>>

\* the driver receives from the ready channel; it blocks while it is empty
DriverRecv ==
  /\ pc[Driver] = "idle"
  /\ ready > 0
  /\ ready' = ready - 1
  /\ Step(Driver, "Woken", NoLocal, "Ready", {"ready"})
  /\ UNCHANGED <<pool, waiters, pendingOutbound, pendingInbound, wlog, pstates>>
  /\ KeepGhosts /\ KeepLocks

\* the driver's call of Perform: p.performMu.Lock()
DriverLock ==
  /\ pc[Driver] = "Woken"
  /\ performMu = NoThread
  /\ performMu' = Driver
  /\ pstates' = <<>>
  /\ Step(Driver, "PerformOutbound", NoLocal, "Perform", {})
  /\ UNCHANGED <<pool, waiters, pendingOutbound, pendingInbound, ready, wlog>>
  /\ KeepGhosts /\ UNCHANGED pendingInboundMu

DNext ==
  \/ \E t \in Threads : \E ev \in ThreadEvents : NotifyLock(t, ev)
  \/ \E t \in Threads : NotifyAppend(t)
  \/ \E t \in Threads : NotifySignal(t)
  \/ \E t \in Threads : NotifyUnlock(t)
  \/ DriverRecv
  \/ DriverLock
  \/ PerformOutbound(Driver)
  \/ InboundLock(Driver)
  \/ InboundPop(Driver)
  \/ InboundUnlock(Driver)
  \/ PerformInbound(Driver)
  \/ PerformPoll(Driver)
  \/ LastOutbound(Driver)
  \/ UpdateReady(Driver)
  \/ ReadyLock(Driver)
  \/ ReadyRead(Driver)
  \/ ReadyUnlock(Driver)
  \/ ReadySignal(Driver)
  \/ PerformUnlock(Driver)

DSpec == DInit /\ [][DNext]_vars


\* ------------------------------------------------------------------ claims
Last(s) == s[Len(s)]

Logs == 1..Len(wlog)

\* the step is a Perform call that took the inbound event Head(pendingInbound)
PerformTook ==
  /\ pendingOutbound = <<>>
  /\ pendingInbound # <<>>
  /\ pendingInbound' = Tail(pendingInbound)

\* the step is a Perform call that changed the pool (Notify counts itself, and
\* the clock only lets time pass)
PerformChanged ==
  /\ nNotify' = nNotify
  /\ pool' # PoolTick(pool)

FinishedAt(l) == {i \in 1..Len(l) : l[i].type = "Finished"}

\* C1: a notifier receives QueryFinished at most once, is closed right after
\* it, and receives nothing after the close.
C1_FinishedOnceAndLast ==
  \A w \in Logs :
    /\ Cardinality(FinishedAt(wlog[w])) <= 1
    /\ \A i \in FinishedAt(wlog[w]) : i < Len(wlog[w]) /\ wlog[w][i + 1].type = "Close"
    /\ \A i \in 1..Len(wlog[w]) : wlog[w][i].type = "Close" => i = Len(wlog[w])

\* C2: when the pool reports QueryTimeout for a query with a registered
\* notifier, that notifier receives a QueryTimeout event and is then closed.
C2_TimeoutDelivered ==
  \A i \in 1..Len(pstates) :
    (pstates[i].type = "QueryTimeout" /\ pstates[i].q \in DOMAIN waiters) =>
      LET l == wlog[waiters[pstates[i].q]]
      IN /\ Len(l) >= 2
         /\ l[Len(l) - 1].type = "Timeout"
         /\ l[Len(l) - 1].q = pstates[i].q
         /\ Last(l).type = "Close"

\* C3: no silent drops: once a query with a registered notifier has left the
\* pool, a terminal event has been delivered to that notifier.
C3_NoSilentDrop ==
  \A w \in ended : \E i \in 1..Len(wlog[w]) : wlog[w][i].type \in {"Finished", "Timeout"}

RECURSIVE SumInFlight(_, _)
SumInFlight(p, S) ==
  IF S = {} THEN 0
  ELSE LET q == CHOOSE x \in S : TRUE
       IN p.queries[q].in_flight + SumInFlight(p, S \ {q})

WaitingOf(qr) == {n \in Nodes : qr.nodes[n] = "Waiting"}

C5_QueryInFlight ==
  \A q \in DOMAIN pool.queries :
    LET qr == pool.queries[q]
    IN /\ qr.in_flight = Cardinality(WaitingOf(qr))
       /\ qr.in_flight <= RequestConcurrency
       /\ qr.in_flight >= RequestConcurrency =>
            /\ QueryPoll(qr).st = "WaitingAtCapacity"
            /\ QueryPoll(qr).q.nodes = qr.nodes

\* S2: two of three seeds are being asked, the third has to wait, and the
\* Perform call that polled the pool returned no request
C5_Witness ==
  \E q \in DOMAIN pool.queries :
    /\ pool.queries[q].in_flight = RequestConcurrency
    /\ Candidates(pool.queries[q]) # {}
    /\ pool.global_in_flight < Concurrency
    /\ pstates # <<>>
    /\ Last(pstates).type = "WaitingWithCapacity"
    /\ out.type = "None"

\* C6: the closest nodes a finished query reports are in ascending distance
\* to the target, at most closest_k of them, all Succeeded; the notifier
\* receives that list.
C6_ClosestNodes ==
  \A i \in 1..Len(pstates) :
    pstates[i].type = "QueryFinished" =>
      LET st == pstates[i]
          c == st.closest
      IN /\ \A a, b \in 1..Len(c) : a < b => Xor(c[a], st.target) < Xor(c[b], st.target)
         /\ Len(c) <= KOf(st.q)
         /\ \A a \in 1..Len(c) : st.final[c[a]] = "Succeeded"
         /\ st.q \in DOMAIN waiters =>
              LET l == wlog[waiters[st.q]]
              IN /\ Len(l) >= 2
                 /\ l[Len(l) - 1] = Call("Finished", st.q, 0, c)

\* a finished query reports two nodes, the farther by number first, and leaves
\* out a node that is not Succeeded
C6_Witness ==
  \E i \in 1..Len(pstates) :
    /\ pstates[i].type = "QueryFinished"
    /\ Len(pstates[i].closest) = 2
    /\ pstates[i].closest[1] > pstates[i].closest[2]
    /\ \E n \in Nodes : pstates[i].final[n] \in {"NotContacted", "Waiting", "Unreachable"}
    /\ pstates[i].q \in DOMAIN waiters

Forward(a, b) ==
  \/ a = b
  \/ a = "Absent" /\ b \in {"NotContacted", "Waiting"}
  \/ a = "NotContacted" /\ b = "Waiting"
  \/ a = "Waiting" /\ b \in {"Succeeded", "Unreachable"}

SucceededOf(qr) == {n \in Nodes : qr.nodes[n] = "Succeeded"}

C9_LateAnswerNoOp ==
  [][(PerformTook
        /\ Head(pendingInbound).type \in {"GetCloserNodesSuccess", "GetCloserNodesFailure"}
        /\ <<Head(pendingInbound).q, Head(pendingInbound).n>> \in stopped
        /\ ~Has(pool, Head(pendingInbound).q)) =>
       LET q == Head(pendingInbound).q
       IN /\ ~Has(pool', q)
          /\ \A i \in 1..Len(pstates') : pstates'[i].q # q
          /\ q \in DOMAIN waiters => wlog'[waiters[q]] = wlog[waiters[q]]
    ]_vars

\* the pool state the last Advance call got made it return at once
PoolWasTerminal ==
  \/ bpst.type \in {"FindCloser", "WaitingAtCapacity", "WaitingWithCapacity", "QueryTimeout"}
  \/ bpst.type = "QueryFinished" /\ Len(bpst.closest) = 0

\* the store phase is over: nothing to do, nothing awaited, closest known
StoreDone ==
  /\ followUp.todo = {}
  /\ followUp.waiting = {}
  /\ Len(followUp.closest) # 0

\* C10 (as stated): over any sequence of events Advance returns Finished at
\* most once, never again on later events such as further Polls.
C10_FinishedOnce == nFinished <= 1

\* C10 (amended): Advance returns Finished whenever, after handling the event,
\* todo and waiting are empty with closest non-empty and the pool demanded
\* nothing - the first time and on every later event alike - and otherwise
\* only on Stop or when the pool ended the query with no closest nodes (or
\* timed it out); a Finished of the first kind reports the full closest list
\* as contacted and the failed map as errors, one of the second kind reports
\* both empty.
C10_FinishedWhenDone ==
  bev # "None" =>
    /\ (StoreDone /\ ~PoolWasTerminal) => bstate.type = "Finished"
    /\ (bstate.type = "Finished" /\ ~PoolWasTerminal) =>
         /\ StoreDone \/ bev = "Stop"
         /\ bstate.contacted = followUp.closest
         /\ bstate.errors = followUp.failed
    /\ (bstate.type = "Finished" /\ PoolWasTerminal) =>
         /\ bpst.type \in {"QueryFinished", "QueryTimeout"}
         /\ bstate.contacted = <<>>
         /\ bstate.errors = <<>>

\* a further Poll returned Finished a second time, with the closest list and
\* a failed store in it
C10_Witness ==
  /\ nFinished >= 2
  /\ bev = "Poll"
  /\ bstate.type = "Finished"
  /\ bstate.contacted # <<>>
  /\ bstate.contacted = followUp.closest
  /\ bstate.errors # <<>>

\* the nodes in the failed map
FailedNodes == DOMAIN followUp.failed

\* C11: todo, waiting, success and failed are pairwise disjoint, and once the
\* query phase has finished their union is the closest set.
C11_SetsPartitionClosest ==
  /\ followUp.todo \cap followUp.waiting = {}
  /\ followUp.todo \cap followUp.success = {}
  /\ followUp.todo \cap FailedNodes = {}
  /\ followUp.waiting \cap followUp.success = {}
  /\ followUp.waiting \cap FailedNodes = {}
  /\ followUp.success \cap FailedNodes = {}
  /\ isQueryDone(followUp) =>
       followUp.todo \cup followUp.waiting \cup followUp.success \cup FailedNodes
         = Range(followUp.closest)

\* no node occurs twice in the sequence
NoDuplicates(seq) == \A i, j \in DOMAIN seq : seq[i] = seq[j] => i = j

\* C12: over its lifetime the follow-up returns at most one StoreRecord per
\* node and only for nodes of closest, and when it returns Finished every
\* closest node has exactly one outcome: |success| + |failed| = |closest|.
C12_OneStorePerNode ==
  /\ NoDuplicates(fstoreLog)
  /\ Range(fstoreLog) \subseteq Range(followUp.closest)
  /\ bstate.type = "Finished" =>
       Cardinality(followUp.success) + Cardinality(FailedNodes)
         = Len(followUp.closest)

\* the nodes whose store request is not answered yet, or not sent yet
Unsettled(f) == f.todo \cup f.waiting

\* an Advance call that handled Stop moves every node of todo and waiting to
\* failed with the error "cancelled", keeps the outcome of the other nodes,
\* and returns Finished
StopCancels ==
  (nAdvance' = nAdvance + 1 /\ bev' = "Stop") =>
    /\ followUp'.todo = {} /\ followUp'.waiting = {}
    /\ \A n \in Unsettled(followUp) :
         n \in DOMAIN followUp'.failed /\ followUp'.failed[n] = "cancelled"
    /\ followUp.success \subseteq followUp'.success
    /\ \A n \in FailedNodes :
         n \in DOMAIN followUp'.failed /\ followUp'.failed[n] = followUp.failed[n]
    /\ bstate'.type = "Finished"

\* no StoreRecord is returned for a node that was cancelled
CancelledNotStored ==
  (nAdvance' = nAdvance + 1 /\ bstate'.type = "StoreRecord") =>
    ~(bstate'.n \in FailedNodes /\ followUp.failed[bstate'.n] = "cancelled")

\* C13: on Stop in any phase (before the first Poll, during the query,
\* during the store phase) every node still in todo or waiting moves to
\* failed with "cancelled", no StoreRecord is returned for it afterwards,
\* nodes already in success or failed keep their outcome, and Advance
\* returns Finished.
C13_StopCancelsAndFinishes == [][StopCancels /\ CancelledNotStored]_vars

\* the StoreRecord states returned so far follow the order of the closest list
StoreInListOrder ==
  /\ Len(fstoreLog) <= Len(followUp.closest)
  /\ \A i \in DOMAIN fstoreLog : fstoreLog[i] = followUp.closest[i]

\* the Finished state that follows the last store answer reports the whole
\* closest list and the errors of the nodes that failed
FinishedReportsOutcome ==
  (bstate.type = "Finished" /\ bev \in {"StoreRecordSuccess", "StoreRecordFailure"}) =>
    /\ bstate.contacted = followUp.closest
    /\ bstate.errors = followUp.failed
    /\ Range(followUp.closest) = followUp.success \cup FailedNodes

\* C14: when the query phase yields the list closest, the StoreRecord states
\* are returned for its nodes in the order of the list, one per node, and
\* after the answers to all of them the state is Finished with the whole list
\* as contacted and the failed nodes with their error as errors.
C14_HappyPath == StoreInListOrder /\ NoDuplicates(fstoreLog) /\ FinishedReportsOutcome

\* the fields that must only be accessed while performMu is held
Guarded == {"pool", "waiters", "pendingOutbound"}

NotifyPositions == {"NotifyAppend", "NotifySignal", "NotifyUnlock"}

\* the positions of Perform between its Lock and its Unlock: the advance logic
PerformPositions ==
  {"PerformOutbound", "InboundLock", "InboundPop", "InboundUnlock", "PerformInbound",
   "PerformPoll", "LastOutbound", "UpdateReady", "ReadyLock", "ReadyRead",
   "ReadyUnlock", "ReadySignal", "PerformUnlock"}

\* C15: with threads calling Notify and Perform at once, at most one thread
\* is in the advance logic at a time, and the pool, the waiters and the
\* outbound queue are accessed only by the thread that holds performMu.
C15_AdvanceLockGuards ==
  /\ Cardinality({t \in Threads : pc[t] \in PerformPositions}) <= 1
  /\ \A t \in Threads : pc[t] \in PerformPositions => performMu = t
  /\ touched.fields \cap Guarded # {} => (touched.t # NoThread /\ performMu = touched.t)

\* a thread advanced the pool, holding performMu, while the other thread was
\* inside Notify
C15_Witness ==
  /\ "pool" \in touched.fields
  /\ performMu = touched.t
  /\ pool # EmptyPool
  /\ \E t \in Threads : t # touched.t /\ pc[t] \in NotifyPositions

\* the step is one of thread t inside a Notify call
NotifyStepOf(t) ==
  pc'[t] # pc[t] /\ (pc[t] \in NotifyPositions \/ pc'[t] \in NotifyPositions)

\* a step of Notify leaves the pool, the waiters, the outbound queue and
\* performMu alone; all it does to the behaviour is append its event to
\* pendingInbound and send on ready
NotifyOnlyQueues ==
  \A t \in Threads : NotifyStepOf(t) =>
    /\ pool' = pool /\ waiters' = waiters /\ pendingOutbound' = pendingOutbound
    /\ pstates' = pstates /\ performMu' = performMu
    /\ touched'.fields \subseteq {"pendingInbound", "ready"}
    /\ pendingInbound' = IF pc[t] = "NotifyAppend"
                         THEN Append(pendingInbound, local[t].ev) ELSE pendingInbound
    /\ ready' = IF pc[t] = "NotifySignal" /\ ready = 0 THEN 1 ELSE ready

\* whoever holds performMu, a Notify call can start as soon as
\* pendingInboundMu is free, and once started each of its steps can be taken
NotifyNeverWaitsForPerform ==
  \A t \in Threads :
    /\ (pc[t] = "idle" /\ nNotify < MaxCalls /\ pendingInboundMu = NoThread) =>
         \A ev \in ThreadEvents : ENABLED NotifyLock(t, ev)
    /\ pc[t] = "NotifyAppend" => ENABLED NotifyAppend(t)
    /\ pc[t] = "NotifySignal" => ENABLED NotifySignal(t)
    /\ pc[t] = "NotifyUnlock" => ENABLED NotifyUnlock(t)

Holding ==
  {t \in Threads : pc[t] \in {"InboundUnlock", "PerformInbound"} /\ local[t].ok}

\* the events accepted and not handled yet, oldest first
Unhandled ==
  IF Holding = {} THEN pendingInbound
  ELSE <<local[CHOOSE t \in Holding : TRUE].ev>> \o pendingInbound

\* the pool event perfomNextInbound hands to the pool for an inbound event
PoolEventOf(ev) ==
  IF ev.type = "StartFindCloserQuery"
  THEN PoolEvent("AddFindCloserQuery", ev.q, 0, ev.nodes, ev.target)
  ELSE IF ev.type = "StopQuery" THEN PoolEvent("StopQuery", ev.q, 0, <<>>, 0)
  ELSE IF ev.type = "GetCloserNodesSuccess"
  THEN PoolEvent("NodeResponse", ev.q, ev.n, ev.nodes, 0)
  ELSE PoolEvent("NodeFailure", ev.q, ev.n, <<>>, 0)

\* the events not handled yet are the last ones Notify accepted, in its order
InboundInOrder ==
  /\ Cardinality(Holding) <= 1
  /\ Len(Unhandled) <= Len(accepted)
  /\ Unhandled = SubSeq(accepted, Len(accepted) - Len(Unhandled) + 1, Len(accepted))

\* the step that handles an event advances the pool once, with the pool
\* event of the oldest event not handled yet
HandlesOldestOnce ==
  \A t \in Threads : (pc[t] = "PerformInbound" /\ pc'[t] # pc[t]) =>
    /\ local[t].ev = accepted[Len(accepted) - Len(pendingInbound)]
    /\ pool' = PoolAdvance(pool, PoolEventOf(local[t].ev)).pool
    /\ pstates' = Append(pstates, PoolAdvance(pool, PoolEventOf(local[t].ev)).st)
    /\ Len(pstates') = 1

\* a Perform call takes at most one event off pendingInbound: only its one
\* pop changes the queue, and a thread comes to the pop from the call's start
PopsAtMostOne ==
  \A t \in Threads :
    /\ (pc'[t] # pc[t] /\ pc[t] \in PerformPositions) =>
         pendingInbound' = IF pc[t] = "InboundPop" /\ pendingInbound # <<>>
                           THEN Tail(pendingInbound) ELSE pendingInbound
    /\ (pc'[t] # pc[t] /\ pc'[t] = "InboundPop") => pc[t] = "InboundLock"
    /\ (pc'[t] # pc[t] /\ pc'[t] = "InboundLock") => pc[t] = "PerformOutbound"
    /\ (pc'[t] # pc[t] /\ pc'[t] = "PerformOutbound") => pc[t] = "idle"

\* C17: inbound events are processed first in, first out: however the Notify
\* calls interleave, the events (NodeResponse and NodeFailure among them)
\* reach the pool in the order in which Notify accepted them, each exactly
\* once, and each Perform call pops at most one inbound event.
C17_InboundFifo == [](InboundInOrder) /\ [][HandlesOldestOnce /\ PopsAtMostOne]_vars

\* a success and a failure of a request of the query were queued together,
\* and a thread holds the first one, about to hand it to the pool
C17_Witness ==
  /\ Len(accepted) = 3 /\ Len(pendingInbound) = 1
  /\ \E t \in Holding : pc[t] = "PerformInbound" /\ local[t].ev = accepted[2]
  /\ accepted[2] # accepted[3]
  /\ {accepted[2].type, accepted[3].type} = {"GetCloserNodesSuccess", "GetCloserNodesFailure"}
  /\ Has(pool, 1)

\* the events for the routing behaviour that an inbound event gives rise to:
\* AddNode for each closer node of a success, NotifyNonConnectivity for the
\* node of a failure
SideEventsOf(ev) ==
  IF ev.type = "GetCloserNodesSuccess"
  THEN [i \in 1..Len(ev.nodes) |-> Event("AddNode", 0, ev.nodes[i], <<>>, 0, 0)]
  ELSE IF ev.type = "GetCloserNodesFailure"
  THEN <<Event("NotifyNonConnectivity", 0, ev.n, <<>>, 0, 0)>>
  ELSE <<>>

SideEventTypes == {"AddNode", "NotifyNonConnectivity"}

\* the side events a step returned or left queued, oldest first
SideEventsAfter ==
  IF out'.type \in SideEventTypes THEN <<out'>> \o pendingOutbound' ELSE pendingOutbound'

\* a Perform call that takes an inbound event returns or queues exactly the
\* side events of that event, in their order; no other step queues any
SideEventsQueued ==
  pendingOutbound = <<>> =>
    IF PerformTook THEN SideEventsAfter = SideEventsOf(Head(pendingInbound))
    ELSE pendingOutbound' = <<>>

\* while side events are queued no inbound event is taken and nothing is
\* queued behind them: a Perform call returns the oldest and leaves the rest
SideEventsDrained ==
  pendingOutbound # <<>> =>
    \/ /\ pendingOutbound' = Tail(pendingOutbound)
       /\ out' = Head(pendingOutbound)
       /\ pendingInbound' = pendingInbound /\ pool' = pool
    \/ pendingOutbound' = pendingOutbound /\ out' = out

\* C18: every success queues one AddNode per closer node and every failure
\* one NotifyNonConnectivity, whether or not the query still exists, and
\* Perform returns them in the order of the inbound events that caused them,
\* none lost.
C18_SideEventsInOrder == [][SideEventsQueued /\ SideEventsDrained]_vars

\* the answer to a request that was in flight when its query was stopped
\* came with two closer nodes: the first AddNode was returned, the second is
\* queued, and the query is not in the pool
C18_Witness ==
  /\ out = Event("AddNode", 0, 3, <<>>, 0, 0)
  /\ pendingOutbound = <<Event("AddNode", 0, 2, <<>>, 0, 0)>>
  /\ <<1, 1>> \in stopped
  /\ ~Has(pool, 1)

\* the step is a Perform call: it is no Notify call, and not the clock
PerformTaken ==
  /\ nNotify' = nNotify
  /\ ~(pool' = PoolTick(pool) /\ pool' # pool /\ pstates' = pstates /\ out' = out)

\* the inbound event ev is the answer of kind type to a request of query q
\* that is in flight
AnswersRequest(ev, type, q) ==
  /\ ev.type = type /\ ev.q = q
  /\ pool.queries[q].nodes[ev.n] = "Waiting"

\* a Perform call reports QueryTimeout for a query only if more than Timeout
\* has passed since its last progress and it has no request in flight, the
\* failure handled by this call counted
TimeoutOnlyWhenLate ==
  PerformTaken =>
    \A i \in 1..Len(pstates') : pstates'[i].type = "QueryTimeout" =>
      LET q == pstates'[i].q
      IN /\ Has(pool, q)
         /\ pool.queries[q].elapsed > Timeout
         /\ ~AnswersRequest(Handling, "GetCloserNodesSuccess", q)
         /\ pool.queries[q].in_flight =
              IF AnswersRequest(Handling, "GetCloserNodesFailure", q) THEN 1 ELSE 0

\* a Perform call sets the time since the last progress of a query back to 0
\* when it handles the response to a request of the query, and leaves it as
\* it is otherwise: a failure or a request sent are no progress
OnlyResponseRefreshes ==
  PerformTaken =>
    \A q \in DOMAIN pool.queries \cap DOMAIN pool'.queries :
      pool'.queries[q].elapsed =
        IF AnswersRequest(Handling, "GetCloserNodesSuccess", q) THEN 0
        ELSE pool.queries[q].elapsed

\* a Perform call that comes to poll the pool while a query is late reports
\* the timeout of a late query first
LateQueryTimesOut ==
  (PerformTaken /\ pendingOutbound = <<>>
     /\ ~(Handling.type = "StopQuery" /\ Has(pool, Handling.q))
     /\ LateQueries(PoolApply(pool, IF Handling = NoEvent THEN EventPoolPoll
                                    ELSE PoolEventOf(Handling))) # {}) =>
    pstates'[1].type = "QueryTimeout"

PoolIdsUnique ==
  /\ NoDuplicates(pool.order)
  /\ Range(pool.order) = DOMAIN pool.queries

\* adding a query under an id the pool holds leaves the pool as it is
AddExistingRejected ==
  \A q \in DOMAIN pool.queries : \A seed \in SeedsOf(q) :
    AddQuery(pool, q, TargetOf(q), seed) = pool

\* the pool a Perform call leaves when all it gives the pool is Poll
PoolAfterPolls(r) ==
  IF r.st.type = "FindCloser" THEN r.pool ELSE PoolAdvance(r.pool, EventPoolPoll).pool

\* a Perform call that handles the start of a query whose id is in the pool
\* leaves the pool as a call with nothing to handle would: no query is
\* added, and the query of that id and the others go on as they were
DuplicateStartIsNoOp ==
  (PerformTook /\ Head(pendingInbound).type = "StartFindCloserQuery"
     /\ Has(pool, Head(pendingInbound).q)) =>
    /\ pool' = PoolAfterPolls(PoolAdvance(pool, EventPoolPoll))
    /\ DOMAIN pool'.queries \subseteq DOMAIN pool.queries

Starved(q) ==
  /\ Has(pool, q)
  /\ Candidates(pool.queries[q]) # {}
  /\ pool.queries[q].in_flight = 0

\* the query q was issued a request, or was taken out of the pool by a stop
Served(q) == Has(pool, q) => pool.queries[q].in_flight > 0

\* every other query of the pool holds all the slots a query may hold
OthersHot(q) ==
  \A o \in DOMAIN pool.queries : o # q => pool.queries[o].in_flight = RequestConcurrency

\* no query holds more than RequestConcurrency slots
SlotLimit ==
  \A q \in DOMAIN pool.queries : pool.queries[q].in_flight <= RequestConcurrency

\* a Perform call that polls the pool while the other query holds all its
\* slots issues the request of the query that has none
HotQueryLeavesSlot ==
  \A q \in QIDs :
    (PerformTaken /\ pendingOutbound = <<>> /\ pendingInbound = <<>>
       /\ Starved(q) /\ OthersHot(q)) =>
      /\ out'.type = "GetCloserNodes" /\ out'.q = q
      /\ pool'.queries[q].in_flight = 1

\* under repeated Perform calls a query that has a node to contact and no
\* request in flight is issued one (unless it is stopped first)
StarvedIsServed == \A q \in QIDs : Starved(q) ~> Served(q)

\* C21: no query ever holds more than request_concurrency in-flight slots,
\* and with concurrency > request_concurrency a query that always has nodes
\* to contact cannot starve another: under repeated polls the other query
\* that has a node to contact is issued a request in the end.
C21_Fairness == []SlotLimit /\ [][HotQueryLeavesSlot]_vars /\ StarvedIsServed

\* the query first in the pool holds all the slots a query may hold and
\* still has a node to contact, and the other query was issued a request
C21_Witness ==
  \E h \in QIDs :
    /\ pool.order = <<h, OtherOf(h)>>
    /\ pool.queries[h].in_flight = RequestConcurrency
    /\ Candidates(pool.queries[h]) # {}
    /\ pool.queries[OtherOf(h)].in_flight = 1
    /\ out.type = "GetCloserNodes" /\ out.q = OtherOf(h)

\* a Perform call made while a stop is queued takes the stop off
\* pendingInbound and ends the query it names, wherever in pendingInbound
\* the stop is and whatever pendingOutbound holds
StopHonoredAtOnce ==
  PerformTaken =>
    \A i \in 1..Len(pendingInbound) : pendingInbound[i].type = "StopQuery" =>
      /\ \A j \in 1..Len(pendingInbound') : pendingInbound'[j].type # "StopQuery"
      /\ ~Has(pool', pendingInbound[i].q)

\* a Perform call serves one queued event: the head of pendingOutbound if
\* there is one, and the head of pendingInbound otherwise; the events behind
\* it, a stop among them, stay queued in their order
OneQueuedEventPerCall ==
  PerformTaken =>
    IF pendingOutbound # <<>>
    THEN /\ pendingOutbound' = Tail(pendingOutbound)
         /\ pendingInbound' = pendingInbound
         /\ pool' = pool
    ELSE pendingInbound # <<>> => pendingInbound' = Tail(pendingInbound)

\* the queries named by the stops queued behind the event a Perform call
\* serves are not stopped by that call
StopWaitsItsTurn ==
  PerformTaken =>
    \A i \in 2..Len(pendingInbound) :
      (pendingInbound[i].type = "StopQuery" /\ Has(pool, pendingInbound[i].q)
         /\ Head(pendingInbound).type # "StopQuery") =>
        \/ Has(pool', pendingInbound[i].q)
        \/ \E k \in 1..Len(pstates') :
             /\ pstates'[k].q = pendingInbound[i].q
             /\ pstates'[k].type \in {"QueryFinished", "QueryTimeout"}
             /\ pendingOutbound = <<>>

\* a Perform call that takes a stop off pendingInbound hands it to the pool,
\* which ends the query it names
StopHonoredWhenTaken ==
  (PerformTook /\ Head(pendingInbound).type = "StopQuery") =>
    /\ ~Has(pool', Head(pendingInbound).q)
    /\ Has(pool, Head(pendingInbound).q) =>
         /\ pstates'[1].type = "QueryFinished"
         /\ pstates'[1].q = Head(pendingInbound).q

PerformIsNoOp ==
  /\ out' = NoEvent
  /\ pool' = pool
  /\ waiters' = waiters
  /\ wlog' = wlog
  /\ pendingInbound' = pendingInbound
  /\ pendingOutbound' = pendingOutbound

\* no query of the pool has timed out
NothingLate == LateQueries(pool) = {}

\* the pool has no request to issue and no finished query to report: it is
\* at its global limit, or no query has a node to contact within its own
\* limit or has finished
NothingToIssue ==
  pool.order # <<>> => (pool.global_in_flight >= Concurrency \/ WorkQueries(pool) = {})

PerformWhenNoInbound ==
  (PerformTaken /\ pendingInbound = <<>> /\ NothingLate) => PerformIsNoOp

\* C23 (as stated): a Perform call made when no inbound event is queued and
\* no query has timed out returns no event and leaves the pool, every query,
\* the waiters and both queues unchanged.
C23_IdleWhenNoInbound == [][PerformWhenNoInbound]_vars

PerformWhenNothingToDo ==
  (PerformTaken /\ pendingInbound = <<>> /\ pendingOutbound = <<>>
     /\ NothingLate /\ NothingToIssue) =>
    /\ PerformIsNoOp
    /\ Len(pstates') = 1
    /\ pstates'[1].type \in {"Idle", "WaitingAtCapacity", "WaitingWithCapacity"}
    /\ PerformCall(PerformCall(Beh).s) = PerformCall(Beh)

\* C23 (amended): a Perform call made when no inbound and no outbound event
\* is queued, no query has timed out and the pool has no request to issue
\* and no finished query to report gets Idle or Waiting from the pool,
\* returns no event and leaves the pool, every query, the waiters and both
\* queues unchanged; a second call does the same.
C23_IdleWhenNothingToDo == [][PerformWhenNothingToDo]_vars

\* the last Perform call only polled the pool, which was at its global
\* limit while a query had a node left to contact, and returned no event
C23_Witness ==
  /\ pstates = <<PlainState("WaitingAtCapacity")>>
  /\ out = NoEvent
  /\ pendingInbound = <<>> /\ pendingOutbound = <<>>
  /\ pool.global_in_flight = Concurrency
  /\ \E q \in DOMAIN pool.queries :
       /\ Candidates(pool.queries[q]) # {}
       /\ pool.queries[q].in_flight < RequestConcurrency

\* step (1): a call that finds an outbound event queued returns it, takes no
\* inbound event and does not advance the pool
OutboundStepAlone ==
  (PerformTaken /\ pendingOutbound # <<>>) =>
    /\ out' = Head(pendingOutbound)
    /\ pendingOutbound' = Tail(pendingOutbound)
    /\ pendingInbound' = pendingInbound
    /\ pstates' = <<>> /\ pool' = pool

\* step (2): otherwise a call that finds an inbound event queued takes it and
\* advances the pool once, with the event it translates to
InboundStepAlone ==
  (PerformTaken /\ pendingOutbound = <<>> /\ pendingInbound # <<>>) =>
    /\ pendingInbound' = Tail(pendingInbound)
    /\ pstates' = <<PoolAdvance(pool, PoolEventOf(Head(pendingInbound))).st>>
    /\ pool' = PoolAdvance(pool, PoolEventOf(Head(pendingInbound))).pool

\* steps (3) and (4): otherwise the call advances the pool once, with Poll,
\* and returns the request the pool issues, if any
PollStepAlone ==
  (PerformTaken /\ pendingOutbound = <<>> /\ pendingInbound = <<>>) =>
    /\ pstates' = <<PoolAdvance(pool, EventPoolPoll).st>>
    /\ pool' = PoolAdvance(pool, EventPoolPoll).pool
    /\ out' = advancePoolState(Beh, pstates'[1]).ev
    /\ pendingInbound' = <<>> /\ pendingOutbound' = <<>>

\* C24: each Perform call does exactly the first applicable step of:
\* (1) return one queued outbound event; else (2) take one inbound event and
\* advance the pool with it; else (3) advance the pool with Poll; else
\* (4) return none. A call that returns a queued outbound event takes no
\* inbound event and does not advance the pool, and a call that handles an
\* inbound event does not advance the pool with Poll as well.
C24_FirstApplicableStep ==
  [][OutboundStepAlone /\ InboundStepAlone /\ PollStepAlone]_vars

C24_OutboundAndPollSteps == [][OutboundStepAlone /\ PollStepAlone]_vars

\* a Perform call that handles the start of a query whose id is running
\* leaves the waiters as they are: the notifier registered for the running
\* query stays, and the one the rejected event carries is not registered
DuplicateStartKeepsNotifier ==
  (PerformTook /\ Head(pendingInbound).type = "StartFindCloserQuery"
     /\ Has(pool, Head(pendingInbound).q)) =>
    waiters' = waiters

\* C25: a start event whose QueryID is already running is rejected by the
\* pool and leaves the running query's registered notifier unchanged: the
\* original notifier still receives that query's QueryFinished, and the
\* notifier the rejected event carries receives nothing.
C25_RejectedStartKeepsNotifier == [][DuplicateStartKeepsNotifier]_vars

\* no Notify and no Perform call is under way, and the driver waits for a
\* signal on a ready channel that holds none
DriverBlocked ==
  /\ \A t \in DOMAIN pc : pc[t] = "idle"
  /\ ready = 0

\* C26: no lost wake-up: with one driver that waits on ready and then calls
\* Perform once, and threads calling Notify at will, the driver is never
\* blocked on an empty ready channel, with no call under way, while
\* pendingInbound or pendingOutbound holds an event.
C26_NoLostWakeup == DriverBlocked => (pendingInbound = <<>> /\ pendingOutbound = <<>>)

\* the driver is blocked with both queues empty after three events were
\* notified of, and the last signal it took woke it for a queued side event
C26_Witness ==
  /\ DriverBlocked
  /\ nNotify = MaxCalls
  /\ Len(accepted) = MaxCalls
  /\ out.type \in SideEventTypes

\* the pool can issue a request: a query has a node to contact and both its
\* own limit and the global limit on requests in flight have room, so that
\* a poll would be answered with that request
PoolCanIssue ==
  /\ pool.global_in_flight < Concurrency
  /\ \E q \in DOMAIN pool.queries :
       /\ Candidates(pool.queries[q]) # {}
       /\ pool.queries[q].in_flight < RequestConcurrency
  /\ PoolSchedule(pool).st.type = "FindCloser"

\* C27: ready fires whenever there is work: with a driver that calls Perform
\* once per signal, whenever the pool can still issue a request, ready is or
\* becomes signalled, so the request is emitted without a further Notify:
\* the driver is never blocked on an empty ready channel, with no call
\* under way, while the pool can issue a request.
C27_ReadyWhenPoolHasWork == DriverBlocked => ~PoolCanIssue

\* the step is an Advance call, for an event other than Stop, to which the
\* pool returned the end of a query that is not the FollowUp's
ForeignTerminal ==
  /\ nAdvance' = nAdvance + 1
  /\ bev' # "Stop"
  /\ bpst'.type \in {"QueryFinished", "QueryTimeout"}
  /\ bpst'.q # followUp.queryID

\* such a call leaves closest, todo, waiting, success and failed as they
\* are and does not return Finished for the other query's timeout
ForeignTerminalIgnored ==
  ForeignTerminal =>
    /\ followUp'.closest = followUp.closest
    /\ followUp'.todo = followUp.todo
    /\ followUp'.waiting = followUp.waiting
    /\ followUp'.success = followUp.success
    /\ followUp'.failed = followUp.failed
    /\ bpst'.type = "QueryTimeout" => bstate'.type # "Finished"

\* C28: a FollowUp that shares its pool with other queries reacts only to
\* the terminal pool states of its own query: it sets closest and todo only
\* from a QueryFinished of its own query id and returns Finished on
\* QueryTimeout only if its own query timed out; a QueryFinished or
\* QueryTimeout of another query leaves closest, todo, waiting, success and
\* failed unchanged.
C28_OwnTerminalOnly == [][ForeignTerminalIgnored]_vars

\* the step is an Advance call made after an Advance call returned Finished
AdvanceAfterFinished == nFinished >= 1 /\ nAdvance' = nAdvance + 1

\* such a call adds no query to the pool and hands out no request
NothingAfterFinished ==
  AdvanceAfterFinished =>
    /\ bstate'.type \notin {"FindCloser", "StoreRecord"}
    /\ Has(followUp'.pool, followUp.queryID) => Has(followUp.pool, followUp.queryID)

\* C29: Finished is absorbing for a FollowUp: once Advance has returned
\* Finished (also one caused by a Stop received before the first Poll), no
\* later event makes Advance add a query to the pool or return FindCloser or
\* StoreRecord.
C29_FinishedIsAbsorbing == [][NothingAfterFinished]_vars
====
